---------------------------- MODULE Spec2Model ----------------------------
(***************************************************************************)
(* A model of wrapspawner: the delegating wrapper WrapSpawner and its      *)
(* profile-selecting subclasses ProfilesSpawner and FilteredSpawner        *)
(* (src/wrapspawner/wrapspawner.py).                                       *)
(*                                                                         *)
(* One spawner object is modelled together with the two things the hub     *)
(* keeps for it: the state it persisted (the result of get_state) and the  *)
(* options the user submitted.  The wrapped spawner ("launcher", the       *)
(* child) is an opaque collaborator: only what the wrapper passes to it    *)
(* and reads back from it is modelled.                                     *)
(*                                                                         *)
(* Python values are encoded as follows.                                   *)
(*   - a config dict (child_config, a profile's p[3], state['child_conf']) *)
(*     is a record over Fields; the value Unset says the key is absent;    *)
(*   - a launcher state dict is a number: 0 is {}, n > 0 is {'pid': n};    *)
(*     AbsentState says the key 'child_state' is not in the dict;          *)
(*   - a returned value is a record: None, an int, the launcher object or  *)
(*     the result of one of the launcher's methods.  A launcher object is  *)
(*     the same as before a call unless the call made a new one, which     *)
(*     shows as "__init__" among the launcher methods the call ran.        *)
(***************************************************************************)
EXTENDS Integers, Sequences, FiniteSets, TLC

(***************************************************************************)
(* Bounds of the model.                                                    *)
(***************************************************************************)
\* longest catalog that is assigned to profiles / default_profiles
MaxProfiles == 2
\* largest pid a launcher stores in its state
MaxPid == 1
\* largest exit status a launcher's poll reports
MaxExit == 1
\* most records in one JSON document of profiles (a file, a response body)
MaxRecords == 2

(***************************************************************************)
(* Values.                                                                 *)
(***************************************************************************)
Classes == {"LocalProcessSpawner", "BatchSpawner"}

\* the three kinds of wrapper that are modelled
Kinds == {"WrapSpawner", "ProfilesSpawner", "FilteredSpawner"}

Fields == {"start_timeout", "http_timeout"}

Unset == 0

Conf(st, ht) == [start_timeout |-> st, http_timeout |-> ht]

EmptyConf == Conf(Unset, Unset)

\* the keys of a config dict
ConfKeys(c) == {f \in Fields : c[f] # Unset}

\* dict.update: the entries of c2 replace or extend those of c1
DictUpdate(c1, c2) == [f \in Fields |-> IF c2[f] # Unset THEN c2[f] ELSE c1[f]]

\* a profile tuple (display, key, class, config); the display name p[0] is
\* used only to render the form and is left out
Profile(k, c, cf) == [key |-> k, class |-> c, conf |-> cf]

\* the default value of the profiles trait
DefaultProfile == Profile("local", "LocalProcessSpawner", Conf(15, 10))

\* the profiles an administrator configures
ProfilePool ==
    { DefaultProfile, Profile("batch", "BatchSpawner", Conf(30, Unset)) }

\* the catalogs that are assigned, the empty one included
Catalogs ==
    UNION { [1..n -> ProfilePool] : n \in 0..MaxProfiles }

\* the value of user_options with no 'profile' entry, and of a state dict
\* with no 'profile' key
NoKey == "<none>"

\* the keys a user submits or a persisted state carries
KeyPool == {"local", "batch"}

AbsentState == -1

\* the persisted child_conf dicts that load_state is given
ConfInputs == {EmptyConf, Conf(Unset, 20)}

\* a state dict: the persisted envelope {profile, child_conf, child_state}
State(p, cf, cs) == [profile |-> p, child_conf |-> cf, child_state |-> cs]

\* the state of a spawner that never persisted anything: {}
EmptyState == State(NoKey, EmptyConf, AbsentState)

StateInputs ==
    { State(p, cf, cs) : p \in KeyPool \cup {NoKey}, cf \in ConfInputs,
                         cs \in {AbsentState} \cup (0..MaxPid) }

\* returned values: None, an int, the launcher object child_spawner refers
\* to, what the launcher's own method m returned, and a state dict (which
\* snap holds)
None == [t |-> "None", n |-> 0, m |-> ""]
IntVal(n) == [t |-> "int", n |-> n, m |-> ""]
Launcher == [t |-> "Spawner", n |-> 0, m |-> ""]
ChildResult(m) == [t |-> "child", n |-> 0, m |-> m]
Dict == [t |-> "dict", n |-> 0, m |-> ""]

\* self.user_token: no such attribute yet, the empty string, a token the hub
\* issued, and the literal in _get_profiles
NoToken == "<unset>"
IssuedToken == "<issued>"
HardcodedToken == "2ac1ee9a8e2240d6b347e13f23f31ef1"

(***************************************************************************)
(* The launcher: the child spawner the wrapper delegates to.               *)
(***************************************************************************)
\* child_spawner = None
NoChild ==
    [class |-> "", conf |-> EmptyConf, links |-> {}, nlink |-> 0, state |-> 0,
     vals |-> EmptyConf]

\* `if self.child_spawner:`
HasChild(w) == w.child_spawner # NoChild

\* trait_names() of the wrapper and of a launcher of class c: the Spawner
\* traits are common to both
WrapperTraitNames ==
    Fields \cup {"child_class", "child_config", "child_state", "child_profile"}

ChildTraitNames(c) ==
    Fields \cup (IF c = "BatchSpawner" THEN {"req_queue"} ELSE {"popen_kwargs"})

\* child_class(user=..., config=..., **child_config): a new instance; the
\* state it starts with is not the launcher's own (garbage)
Instantiate(c, cf, garbage) ==
    [class |-> c, conf |-> cf, links |-> {}, nlink |-> 0, state |-> garbage,
     vals |-> cf]

ChildClearState(l) == [l EXCEPT !.state = 0]

ChildLoadState(l, s) == [l EXCEPT !.state = s]

ChildGetState(l) == l.state

\* directional_link((self, trait), (child, trait)) for every name in ts
LinkTraits(l, ts, src) ==
    [l EXCEPT !.links = @ \cup ts, !.nlink = @ + Cardinality(ts),
              !.vals = [f \in Fields |-> IF f \in ts THEN src[f] ELSE @[f]]]

(***************************************************************************)
(* The state.                                                              *)
(***************************************************************************)
VARIABLES
    klass,            \* the class of the wrapper object
    profiles,         \* ProfilesSpawner.profiles (the trait)
    default_profiles, \* FilteredSpawner.default_profiles
    user_options,     \* the 'profile' entry of Spawner.user_options, or NoKey
    child_profile,
    child_class,
    child_config,     \* [ref, own]: which dict object child_config is
    child_state,
    child_spawner,
    user_token,       \* ServiceProfilesSpawner: self.user_token
    traits,           \* the wrapper's own values of the traits in Fields
    snap,             \* the last get_state result, while it is being restored
    ret,              \* the last call: its arguments and what it returned
    prev              \* the call before it, when both were construct_child

vars ==
    << klass, profiles, default_profiles, user_options, child_profile,
       child_class, child_config, child_state, child_spawner, user_token,
       traits, snap, ret, prev >>

\* the wrapper object and what it reaches, as one value
Self ==
    [klass |-> klass, profiles |-> profiles,
     default_profiles |-> default_profiles, user_options |-> user_options,
     child_profile |-> child_profile, child_class |-> child_class,
     child_config |-> child_config, child_state |-> child_state,
     child_spawner |-> child_spawner, user_token |-> user_token,
     traits |-> traits]

\* child_config is a reference: to a dict of its own (ref = 0) or to the dict
\* p[3] of the ref-th configured profile
OwnDict(c) == [ref |-> 0, own |-> c]
ProfileDict(i) == [ref |-> i, own |-> EmptyConf]

\* the list whose dicts the catalog shares
Configured(w) ==
    IF w.klass = "FilteredSpawner" THEN w.default_profiles ELSE w.profiles

\* the value of self.child_config
ConfOf(w) ==
    IF w.child_config.ref = 0 THEN w.child_config.own
    ELSE Configured(w)[w.child_config.ref].conf

\* a default_profiles tuple (display, key, class, config, allowed_groups)
GroupProfile(p, g) ==
    [key |-> p.key, class |-> p.class, conf |-> p.conf, groups |-> g]

\* the default_profiles lists that are assigned
GroupCatalogs ==
    { [i \in DOMAIN c |-> GroupProfile(c[i], << "*" >>)] : c \in Catalogs }

\* DummyFilter.apply_filter: x[:4] of every entry.  src is the place of the
\* configured entry whose dict p[3] the result shares.
DummyFilter(dp) ==
    [i \in DOMAIN dp |->
        [key |-> dp[i].key, class |-> dp[i].class, conf |-> dp[i].conf,
         src |-> i]]

\* self.profiles: the trait of a ProfilesSpawner, the property of a
\* FilteredSpawner
ProfilesOf(w) ==
    IF w.klass = "FilteredSpawner"
    THEN DummyFilter(w.default_profiles)
    ELSE [i \in DOMAIN w.profiles |->
            [key |-> w.profiles[i].key, class |-> w.profiles[i].class,
             conf |-> w.profiles[i].conf, src |-> i]]

Min(S) == CHOOSE x \in S : \A y \in S : x <= y

\* user names, and the names of UNIX groups in allowed_groups besides '*'
Users == {"alice", "bob"}
GroupNames == {"staff", "ghost"}

\* grp.getgrnam(group): KeyError for a group that is not known, else the
\* struct whose entry [3] lists the members
GroupEntries ==
    { [known |-> FALSE, members |-> {}] }
      \cup { [known |-> TRUE, members |-> m] : m \in { {}, {"alice"} } }

GroupDbs == [GroupNames -> GroupEntries]

\* the allowed_groups lists p[4] that are configured
GroupLists ==
    { << >>, << "*" >>, << "staff" >>, << "ghost" >>, << "ghost", "staff" >>,
      << "ghost", "*" >>, << "staff", "ghost" >>, << "staff", "*" >>,
      << "*", "staff" >> }

\* the default_profiles lists that apply_filter is given
UnixGroupCatalogs ==
    UNION { [1..n -> { GroupProfile(p, g) : p \in ProfilePool, g \in GroupLists }]
              : n \in 0..MaxProfiles }

\* the loop over p[4] when a group that is not known ends the scan of p
RECURSIVE ScanGroupsAborting(_, _, _, _)
ScanGroupsAborting(p, j, user, db) ==
    IF j > Len(p.groups) THEN [out |-> << >>, log |-> 0]
    ELSE IF p.groups[j] = "*" THEN [out |-> << p >>, log |-> 0]
    ELSE LET found   == db[p.groups[j]].known
             members == IF found THEN db[p.groups[j]].members ELSE {}
             warned  == IF found THEN 0 ELSE 1
         IN  IF user \in members
             THEN [out |-> << Profile(p.key, p.class, p.conf) >>,
                   log |-> warned]
             ELSE IF ~found THEN [out |-> << >>, log |-> warned]
             ELSE LET rest == ScanGroupsAborting(p, j + 1, user, db)
                  IN  [out |-> rest.out, log |-> rest.log + warned]

\* the loop over p[4], from the group at place j on: what is appended for p
\* (nothing, p or p[:4]) and the number of warnings logged
RECURSIVE ScanGroups(_, _, _, _)
ScanGroups(p, j, user, db) ==
    IF j > Len(p.groups) THEN [out |-> << >>, log |-> 0]
    ELSE IF p.groups[j] = "*" THEN [out |-> << p >>, log |-> 0]
    ELSE LET found   == db[p.groups[j]].known
             members == IF found THEN db[p.groups[j]].members ELSE {}
             warned  == IF found THEN 0 ELSE 1
         IN  IF user \in members
             THEN [out |-> << Profile(p.key, p.class, p.conf) >>,
                   log |-> warned]
             ELSE LET rest == ScanGroups(p, j + 1, user, db)
                  IN  [out |-> rest.out, log |-> rest.log + warned]

\* UnixGroupFilter.apply_filter, from the profile at place i on
RECURSIVE UnixGroupFilter(_, _, _, _)
UnixGroupFilter(default_profiles_, i, user, db) ==
    IF i > Len(default_profiles_) THEN [out |-> << >>, log |-> 0]
    ELSE LET one  == ScanGroups(default_profiles_[i], 1, user, db)
             rest == UnixGroupFilter(default_profiles_, i + 1, user, db)
         IN  [out |-> one.out \o rest.out, log |-> one.log + rest.log]

(***************************************************************************)
(* The methods, as functions of the wrapper w.  Each gives the wrapper     *)
(* after the call (w), the value returned (val), the launcher methods and   *)
(* hook callables it called, in order (calls), the exception that left it  *)
(* (exc) and the number of records it logged at warning level or above     *)
(* (log).                                                                  *)
(***************************************************************************)
Result(w, val, calls) ==
    [w |-> w, val |-> val, calls |-> calls, exc |-> "none", fut |-> "none",
     log |-> 0]

\* the result is a future of the launcher, handed on as it is
ChildFuture(r) == [r EXCEPT !.fut = "child"]

\* _yield_val(x): a future that is already done, with the result x
yield_val(w, x) == [Result(w, x, << >>) EXCEPT !.fut = "done"]

\* ProfilesSpawner._validate_profiles: the keys that occur again after
\* their first occurrence
Duplicated(ps) ==
    { ps[i].key : i \in { j \in DOMAIN ps : \E h \in 1..(j-1) : ps[h].key = ps[j].key } }

\* select_profile without `self.child_config = p[3]`
select_profile_class_only(w, profile) ==
    LET ps == ProfilesOf(w)
        m  == { i \in DOMAIN ps : ps[i].key = profile }
    IN  IF m = {} THEN w
        ELSE [w EXCEPT !.child_class = ps[Min(m)].class]

\* ProfilesSpawner.select_profile: the first profile with the key, if any
select_profile(w, profile) ==
    LET ps == ProfilesOf(w)
        m  == { i \in DOMAIN ps : ps[i].key = profile }
    IN  IF m = {} THEN w
        ELSE [w EXCEPT !.child_class = ps[Min(m)].class,
                       !.child_config = ProfileDict(ps[Min(m)].src)]

\* ProfilesSpawner.options_from_form: formdata.get('profile', [first key])[0]
options_from_form(w, formdata) ==
    IF formdata = NoKey THEN ProfilesOf(w)[1].key ELSE formdata

\* construct_child with no test of child_spawner: a new launcher every time
WrapSpawner_construct_child_always(w, garbage) ==
    LET l0 == Instantiate(w.child_class, ConfOf(w), garbage)
        l1 == ChildClearState(l0)
        l2 == IF w.child_state # 0
              THEN ChildLoadState(l1, w.child_state) ELSE l1
        l3 == LinkTraits(l2, WrapperTraitNames \cap
                 (ChildTraitNames(w.child_class) \ ConfKeys(ConfOf(w))),
                 w.traits)
    IN  Result([w EXCEPT !.child_spawner = l3], Launcher,
               << "__init__", "clear_state" >>
                 \o (IF w.child_state # 0 THEN << "load_state" >> ELSE << >>)
                 \o << "link" >>)

\* WrapSpawner.construct_child
WrapSpawner_construct_child(w, garbage) ==
    IF ~HasChild(w)
    THEN LET l0 == Instantiate(w.child_class, ConfOf(w), garbage)
             l1 == ChildClearState(l0)
             l2 == IF w.child_state # 0
                   THEN ChildLoadState(l1, w.child_state) ELSE l1
             common_traits ==
                 WrapperTraitNames \cap
                 (ChildTraitNames(w.child_class) \ ConfKeys(ConfOf(w)))
             l3 == LinkTraits(l2, common_traits, w.traits)
         IN  Result([w EXCEPT !.child_spawner = l3], Launcher,
                    << "__init__", "clear_state" >>
                      \o (IF w.child_state # 0 THEN << "load_state" >> ELSE << >>)
                      \o << "link" >>)
    ELSE Result(w, Launcher, << >>)

\* ProfilesSpawner.construct_child: the result of super().construct_child()
\* is not returned
ProfilesSpawner_construct_child(w, garbage) ==
    LET w1 == [w EXCEPT !.child_profile =
                   IF w.user_options = NoKey THEN "" ELSE w.user_options]
        w2 == select_profile(w1, w1.child_profile)
        r  == WrapSpawner_construct_child(w2, garbage)
    IN  Result(r.w, None, r.calls)

\* self.construct_child(): the method of the object's class
construct_child(w, garbage) ==
    IF w.klass = "WrapSpawner"
    THEN WrapSpawner_construct_child(w, garbage)
    ELSE ProfilesSpawner_construct_child(w, garbage)

\* load_child_class: nothing in WrapSpawner; ProfilesSpawner takes the key
\* from the state ('' when it has none) and selects it
load_child_class(w, state) ==
    IF w.klass = "WrapSpawner" THEN w
    ELSE LET w1 == [w EXCEPT !.child_profile =
                        IF state.profile = NoKey THEN "" ELSE state.profile]
         IN  select_profile(w1, w1.child_profile)

\* self.child_config.update(d): the dict child_config refers to is changed
\* in place
UpdateChildConfig(w, d) ==
    IF w.child_config.ref = 0
    THEN [w EXCEPT !.child_config.own = DictUpdate(@, d)]
    ELSE IF w.klass = "FilteredSpawner"
    THEN [w EXCEPT !.default_profiles[w.child_config.ref].conf = DictUpdate(@, d)]
    ELSE [w EXCEPT !.profiles[w.child_config.ref].conf = DictUpdate(@, d)]

\* WrapSpawner.load_state
load_state(w, state, garbage) ==
    LET w1 == load_child_class(w, state)
        w2 == UpdateChildConfig(w1, state.child_conf)
        w3 == [w2 EXCEPT !.child_state =
                   IF state.child_state = AbsentState THEN 0
                   ELSE state.child_state]
        r  == construct_child(w3, garbage)
    IN  Result(r.w, None, r.calls)

\* WrapSpawner.get_state and ProfilesSpawner.get_state
get_state(w) ==
    LET has == HasChild(w)
        cs  == ChildGetState(w.child_spawner)
        w1  == IF has THEN [w EXCEPT !.child_state = cs] ELSE w
    IN  Result(w1,
               State(IF w.klass = "WrapSpawner" THEN NoKey ELSE w.child_profile,
                     ConfOf(w),
                     IF has THEN cs ELSE AbsentState),
               IF has THEN << "get_state" >> ELSE << >>)

\* WrapSpawner.clear_state and ProfilesSpawner.clear_state
clear_state(w) ==
    LET w1 == [w EXCEPT !.child_state = 0,
                        !.child_config = OwnDict(EmptyConf),
                        !.child_spawner = NoChild]
    IN  Result(IF w.klass = "WrapSpawner" THEN w1
               ELSE [w1 EXCEPT !.child_profile = ""],
               None,
               IF HasChild(w) THEN << "clear_state" >> ELSE << >>)

\* WrapSpawner.start: the launcher is constructed if there is none, and its
\* start() is returned
start_unconstructed(w, garbage, pid) ==
    IF ~HasChild(w)
    THEN [Result(w, None, << >>) EXCEPT !.exc = "AttributeError"]
    ELSE ChildFuture(Result([w EXCEPT !.child_spawner.state = pid],
                            ChildResult("start"), << "start" >>))

\* WrapSpawner.start: construct_child() if there is no launcher, then the
\* launcher's start(), which stores the pid
start(w, garbage, pid) ==
    LET r == IF ~HasChild(w)
             THEN construct_child(w, garbage)
             ELSE Result(w, None, << >>)
        l == r.w.child_spawner
    IN  ChildFuture(Result([r.w EXCEPT !.child_spawner =
                               [l EXCEPT !.state = pid]],
                           ChildResult("start"),
                           r.calls \o << "start" >>))

\* stop without the test for a launcher: None has no stop()
stop_unguarded(w, now) ==
    IF HasChild(w)
    THEN ChildFuture(Result(w, ChildResult("stop"), << "stop" >>))
    ELSE [Result(w, None, << >>) EXCEPT !.exc = "AttributeError"]

\* WrapSpawner.stop: the launcher's stop(now), or a finished future of None
stop(w, now) ==
    IF HasChild(w)
    THEN ChildFuture(Result(w, ChildResult("stop"), << "stop" >>))
    ELSE yield_val(w, None)

\* what a launcher's poll() gives: None while its server runs, else the exit
\* status
ChildPollValues == {None} \cup { IntVal(n) : n \in 0..MaxExit }

\* poll with _yield_val() for _yield_val(1)
poll_yields_none(w, status) ==
    IF HasChild(w)
    THEN ChildFuture(Result(w, status, << "poll" >>))
    ELSE yield_val(w, None)

\* WrapSpawner.poll: the launcher's poll(), here with the result status, or
\* a finished future of 1
poll(w, status) ==
    IF HasChild(w)
    THEN ChildFuture(Result(w, status, << "poll" >>))
    ELSE yield_val(w, IntVal(1))

\* the values that are written to a trait
WriteValues == {20, 45}

\* a write to a trait of a wrapper whose traits are linked to nothing
set_trait_unlinked(w, f, v) ==
    [w EXCEPT !.traits[f] = v]

\* self.<f> = v on the wrapper: the directional link of f, if the launcher
\* has one, sets the launcher's trait too
set_trait(w, f, v) ==
    LET w1 == [w EXCEPT !.traits[f] = v]
    IN  IF HasChild(w) /\ f \in w.child_spawner.links
        THEN [w1 EXCEPT !.child_spawner.vals[f] = v]
        ELSE w1

\* self.child_spawner.<f> = v: a directional link has no way back
set_child_trait(w, f, v) == [w EXCEPT !.child_spawner.vals[f] = v]

\* what a hook trait of the wrapper holds: None, a callable that returns, a
\* callable that raises
HookValues == {"none", "returns", "raises"}

\* what the launcher's own hook method does when it is called
ChildHookOutcomes == {"returns", "raises"}

\* an exception leaves the method
Raise(r, e) == [r EXCEPT !.exc = e, !.val = None, !.fut = "none"]

\* `except Exception: self.log.exception(...)`: the exception is logged and
\* the method returns None
Caught(r) == [r EXCEPT !.exc = "none", !.val = None, !.fut = "none", !.log = @ + 1]

\* WrapSpawner.move_certs: the launcher's move_certs, with no test that there
\* is a launcher
move_certs(w) ==
    IF HasChild(w)
    THEN ChildFuture(Result(w, ChildResult("move_certs"), << "move_certs" >>))
    ELSE Raise(Result(w, None, << >>), "AttributeError")

\* the body of run_post_stop_hook, inside `try`
post_stop_body(w, hook, child) ==
    IF hook = "none" THEN Result(w, None, << >>)
    ELSE IF hook = "raises"
    THEN Raise(Result(w, None, << "post_stop_hook" >>), "Exception")
    ELSE IF ~HasChild(w)
    THEN Raise(Result(w, None, << "post_stop_hook" >>), "AttributeError")
    ELSE IF child = "raises"
    THEN Raise(Result(w, None, << "post_stop_hook", "run_post_stop_hook" >>),
               "Exception")
    ELSE Result(w, ChildResult("run_post_stop_hook"),
                << "post_stop_hook", "run_post_stop_hook" >>)

\* run_post_stop_hook with no try / except
run_post_stop_hook_uncaught(w, hook, child) ==
    post_stop_body(w, hook, child)

\* WrapSpawner.run_post_stop_hook
run_post_stop_hook(w, hook, child) ==
    LET r == post_stop_body(w, hook, child)
    IN  IF r.exc # "none" THEN Caught(r) ELSE r

\* what a hook callable of the wrapper returned
HookResult(m) == [t |-> "hook", n |-> 0, m |-> m]

\* WrapSpawner.run_pre_spawn_hook: the wrapper's hook and return, or else
\* the launcher's
run_pre_spawn_hook(w, hook, child) ==
    IF hook = "raises"
    THEN Raise(Result(w, None, << "pre_spawn_hook" >>), "Exception")
    ELSE IF hook = "returns"
    THEN Result(w, HookResult("pre_spawn_hook"), << "pre_spawn_hook" >>)
    ELSE IF ~HasChild(w)
    THEN Raise(Result(w, None, << >>), "AttributeError")
    ELSE IF child = "raises"
    THEN Raise(Result(w, None, << "run_pre_spawn_hook" >>), "Exception")
    ELSE Result(w, ChildResult("run_pre_spawn_hook"),
                << "run_pre_spawn_hook" >>)

\* WrapSpawner.run_auth_state_hook.  With a hook set, the method calls
\* self.run_auth_state_hook(self, auth_state): the bound method is given one
\* argument too many, a TypeError, and auth_state_hook itself is not called.
run_auth_state_hook(w, hook, child, garbage) ==
    IF hook # "none"
    THEN Raise(Result(w, None, << >>), "TypeError")
    ELSE LET r == IF ~HasChild(w)
                  THEN construct_child(w, garbage)
                  ELSE Result(w, None, << >>)
             calls == r.calls \o << "run_auth_state_hook" >>
         IN  IF child = "raises"
             THEN Raise(Result(r.w, None, calls), "Exception")
             ELSE Result(r.w, None, calls)

\* progress returning None when there is no launcher
progress_default(w) ==
    IF HasChild(w)
    THEN Result(w, ChildResult("progress"), << "progress" >>)
    ELSE Result(w, None, << >>)

\* WrapSpawner.progress (a property)
progress(w) ==
    IF HasChild(w)
    THEN Result(w, ChildResult("progress"), << "progress" >>)
    ELSE Raise(Result(w, None, << >>), "RuntimeError")

\* a record of a JSON document of profiles: 'description', 'options', and
\* optionally 'spawner' (spawner = "" says the key is absent); a record with
\* has_options = FALSE lacks the key 'options'
JsonProfile(d, sp, o) ==
    [description |-> d, spawner |-> sp, has_options |-> o,
     options |-> Conf(30, Unset)]

JsonProfiles ==
    { JsonProfile("A", "", TRUE), JsonProfile("B", "BatchSpawner", TRUE),
      JsonProfile("C", "", FALSE) }

JsonDocuments == UNION { [1..n -> JsonProfiles] : n \in 0..MaxRecords }

\* what reading a file of profiles gives: its JSON list, or the way it fails
\* (not there; an OSError / a non-zero exit of cat; no JSON in it)
FileReads ==
    { [status |-> "ok", data |-> d] : d \in JsonDocuments }
      \cup { [status |-> st, data |-> << >>] :
                st \in {"missing", "unreadable", "invalid"} }

\* the key f"prof_{index}"
ProfKey(index) == << "prof_", index >>

\* the loop that builds profiles_clean from profiles_data, keys[i] being the
\* key given to the i-th record; KeyError at the first record without
\* 'options'
ProfilesClean(profiles_data, keys) ==
    IF \E i \in DOMAIN profiles_data : ~profiles_data[i].has_options
    THEN [exc |-> "KeyError", out |-> << >>]
    ELSE [exc |-> "none",
          out |-> [i \in DOMAIN profiles_data |->
                     [display |-> profiles_data[i].description,
                      key |-> keys[i],
                      class |-> IF profiles_data[i].spawner = ""
                                THEN "batchspawner.SlurmSpawner"
                                ELSE profiles_data[i].spawner,
                      conf |-> profiles_data[i].options]]]

\* what a call of a provider's profiles gives: the catalog (out), the
\* exception that left it, the warnings and the errors it logged
Provided(out, exc, warns, errors) ==
    [out |-> out, exc |-> exc, warns |-> warns, errors |-> errors]

\* ImportedProfilesSpawner.profiles when a common file that is not there is
\* not caught
imported_profiles_common_required(known, common, own) ==
    IF ~known \/ common.status # "ok" THEN Provided(<< >>, "KeyError", 0, 0)
    ELSE LET profiles_data == common.data \o own.data
             c == ProfilesClean(profiles_data,
                     [i \in DOMAIN profiles_data |-> ProfKey(i - 1)])
         IN  Provided(c.out, c.exc, 0, 0)

\* ImportedProfilesSpawner.profiles: known says pwd.getpwnam finds the user,
\* common is the read of common_profiles_loc, own that of user_profiles_loc
\* by `cat` (for own, "missing" is a non-zero exit of cat, a warning, and
\* "unreadable" an OSError of subprocess.run, an error record)
imported_profiles(known, common, own) ==
    IF ~known THEN Provided(<< >>, "KeyError", 0, 0)
    ELSE IF common.status = "invalid"
    THEN Provided(<< >>, "JSONDecodeError", 0, 0)
    ELSE IF own.status = "invalid"
    THEN Provided(<< >>, "JSONDecodeError",
                  IF common.status = "ok" THEN 0 ELSE 1, 0)
    ELSE LET profiles_data == common.data \o own.data
             warns  == (IF common.status = "ok" THEN 0 ELSE 1)
                         + (IF own.status = "missing" THEN 1 ELSE 0)
             errors == (IF own.status = "unreadable" THEN 1 ELSE 0)
                         + (IF Len(profiles_data) = 0 THEN 1 ELSE 0)
             c == ProfilesClean(profiles_data,
                     [i \in DOMAIN profiles_data |-> ProfKey(i - 1)])
         IN  Provided(c.out, c.exc, warns, errors)

\* a record of the profile service's response: a JSON profile with its
\* 'profile_id'
ServiceProfile(id, r) ==
    [profile_id |-> id, description |-> r.description, spawner |-> r.spawner,
     has_options |-> r.has_options, options |-> r.options]

ServiceDocuments ==
    UNION { [1..n -> { ServiceProfile(id, r) : id \in KeyPool, r \in JsonProfiles }]
              : n \in 0..MaxRecords }

\* what the profile service answers to a GET: 200 with {"profiles": [...]},
\* or an HTTP error; 401 and 403 say the token is missing or rejected
HttpErrors == {"401", "403", "500"}

Responses ==
    { [status |-> "200", data |-> d] : d \in ServiceDocuments }
      \cup { [status |-> e, data |-> << >>] : e \in HttpErrors }

\* what the hub answers to the POST of _get_user_token: a token, an HTTP
\* error, a body with no "token", or the request fails otherwise
TokenOutcomes == {"token", "http_error", "no_token", "error"}

\* ServiceProfilesSpawner._get_user_token.  In `except KeyError as e` the
\* handler reads e.response, which a KeyError does not have.
get_user_token(w, outcome) ==
    IF outcome = "token"
    THEN Result([w EXCEPT !.user_token = IssuedToken], None, << "POST tokens" >>)
    ELSE IF outcome = "no_token"
    THEN Raise(Result(w, None, << "POST tokens" >>), "AttributeError")
    ELSE [Result([w EXCEPT !.user_token = ""], None, << "POST tokens" >>)
             EXCEPT !.log = 1]

\* a value that is a Future which nothing has awaited
PendingFuture == [t |-> "Future", n |-> 0, m |-> ""]

\* ServiceProfilesSpawner._get_profiles: the request carries the literal
\* token; the future of fetch is returned as it is, not awaited, so an HTTP
\* error is not raised inside the try.  sent is the token of the request.
get_profiles(w, response) ==
    LET w1 == [w EXCEPT !.user_token = HardcodedToken]
    IN  [r |-> Result(w1, PendingFuture, << "GET profiles" >>),
         sent |-> w1.user_token]

\* ServiceProfilesSpawner.profiles: run_sync(self._get_profiles), then
\* fetched.body, which only a response has
service_profiles(w, response) ==
    LET g == get_profiles(w, response)
    IN  IF g.r.val = PendingFuture
        THEN [r |-> Raise(g.r, "AttributeError"), sent |-> g.sent,
              out |-> << >>]
        ELSE LET c == ProfilesClean(response.data,
                        [i \in DOMAIN response.data |->
                            response.data[i].profile_id])
             IN  [r |-> [g.r EXCEPT !.exc = c.exc], sent |-> g.sent,
                  out |-> c.out]

\* assigning the profiles trait: the length check of List(minlen = 1), then
\* _validate_profiles
validate_profiles(value) ==
    IF Len(value) < 1 THEN [ok |-> FALSE, dups |-> {}]
    ELSE IF Cardinality(Duplicated(value)) # 0
    THEN [ok |-> FALSE, dups |-> Duplicated(value)]
    ELSE [ok |-> TRUE, dups |-> {}]

\* assigning the default_profiles trait: only List(minlen = 1) is checked
validate_default_profiles(value) ==
    IF Len(value) < 1 THEN [ok |-> FALSE, dups |-> {}]
    ELSE [ok |-> TRUE, dups |-> {}]

\* when the configured list is replaced, a child_config that refers to a
\* dict of the old list keeps that dict
Detach(w) ==
    IF w.child_config.ref = 0 THEN w
    ELSE [w EXCEPT !.child_config = OwnDict(ConfOf(w))]

(***************************************************************************)
(* What is recorded of a call.                                             *)
(***************************************************************************)
Call(op) ==
    [op |-> op, fut |-> "none", val |-> None, exc |-> "none", key |-> "",
     calls |-> << >>, cat |-> << >>, dups |-> {}, restore |-> FALSE,
     before |-> FALSE, log |-> 0, hook |-> "", child |-> "",
     arg |-> << >>, err |-> 0]

\* what a method returned, as the record of the call
Returned(op, r) ==
    [Call(op) EXCEPT !.val = r.val, !.calls = r.calls, !.exc = r.exc,
                     !.fut = r.fut, !.log = r.log]

NoPrev == [op |-> "", val |-> None, nlink |-> 0]

NoSnap ==
    [phase |-> "none", state |-> EmptyState, class |-> "", child |-> FALSE]

\* the wrapper as its constructor leaves it
IsFresh(w) ==
    /\ w.child_spawner = NoChild
    /\ w.child_profile = ""
    /\ w.child_class = "LocalProcessSpawner"
    /\ w.child_config = OwnDict(EmptyConf)
    /\ w.child_state = 0

Commit(w, r, s) ==
    /\ klass' = w.klass
    /\ profiles' = w.profiles
    /\ default_profiles' = w.default_profiles
    /\ user_options' = w.user_options
    /\ child_profile' = w.child_profile
    /\ child_class' = w.child_class
    /\ child_config' = w.child_config
    /\ child_state' = w.child_state
    /\ child_spawner' = w.child_spawner
    /\ user_token' = w.user_token
    /\ traits' = w.traits
    /\ ret' = [r EXCEPT !.before = HasChild(Self)]
    /\ snap' = s
    /\ prev' = IF ret.op = "construct_child" /\ r.op = "construct_child"
               THEN [op |-> ret.op, val |-> ret.val,
                     nlink |-> child_spawner.nlink]
               ELSE NoPrev

InitOf(kinds) ==
    /\ klass \in kinds
    /\ profiles = IF klass = "ProfilesSpawner" THEN << DefaultProfile >> ELSE << >>
    /\ default_profiles =
           IF klass = "FilteredSpawner"
           THEN << GroupProfile(DefaultProfile, << "*" >>) >> ELSE << >>
    /\ user_options = NoKey
    /\ child_profile = ""
    /\ child_class = "LocalProcessSpawner"
    /\ child_config = OwnDict(EmptyConf)
    /\ child_state = 0
    /\ child_spawner = NoChild
    /\ user_token = NoToken
    /\ traits = EmptyConf
    /\ snap = NoSnap
    /\ ret = Call("__init__")
    /\ prev = NoPrev

(***************************************************************************)
(* The operations.                                                         *)
(***************************************************************************)
\* the configuration is applied to a new object, before the hub uses it
AtConfiguration == ret.op \in {"__init__", "set_profiles"} /\ IsFresh(Self)

\* c.ProfilesSpawner.profiles = value
SetProfiles(value) ==
    /\ klass = "ProfilesSpawner"
    /\ AtConfiguration
    /\ LET v == validate_profiles(value)
           r == [Call("set_profiles") EXCEPT
                    !.cat = value, !.dups = v.dups,
                    !.exc = IF v.ok THEN "none" ELSE "TraitError"]
       IN  IF v.ok
           THEN Commit([Detach(Self) EXCEPT !.profiles = value], r, NoSnap)
           ELSE Commit(Self, r, NoSnap)

\* c.FilteredSpawner.default_profiles = value
SetDefaultProfiles(value) ==
    /\ klass = "FilteredSpawner"
    /\ AtConfiguration
    /\ LET v == validate_default_profiles(value)
           plain == [i \in DOMAIN value |->
                        Profile(value[i].key, value[i].class, value[i].conf)]
           r == [Call("set_profiles") EXCEPT
                    !.cat = plain, !.dups = v.dups,
                    !.exc = IF v.ok THEN "none" ELSE "TraitError"]
       IN  IF v.ok
           THEN Commit([Detach(Self) EXCEPT !.default_profiles = value], r, NoSnap)
           ELSE Commit(Self, r, NoSnap)

\* the hub sets user_options from the body of a spawn request
SetUserOptions(k) ==
    Commit([Self EXCEPT !.user_options = k],
           [Call("user_options") EXCEPT !.key = k], NoSnap)

\* the hub sets user_options from the submitted form
SubmitForm(formdata) ==
    /\ klass # "WrapSpawner"
    /\ Commit([Self EXCEPT !.user_options = options_from_form(Self, formdata)],
              [Call("options_from_form") EXCEPT !.key = formdata], NoSnap)

SelectProfile(k) ==
    /\ klass # "WrapSpawner"
    /\ Commit(select_profile(Self, k),
              [Call("select_profile") EXCEPT !.key = k], NoSnap)

ConstructChild ==
    /\ \E garbage \in {0, MaxPid} :
          LET r == construct_child(Self, garbage)
          IN  Commit(r.w, Returned("construct_child", r), NoSnap)

LoadState(state) ==
    /\ \E garbage \in {0, MaxPid} :
          LET r == load_state(Self, state, garbage)
              restoring == /\ snap.phase = "fresh"
                           /\ state = snap.state
                           /\ IsFresh(Self)
          IN  Commit(r.w,
                     [Returned("load_state", r) EXCEPT
                         !.key = state.profile, !.restore = restoring],
                     IF restoring THEN [snap EXCEPT !.phase = "restored"]
                     ELSE NoSnap)

GetState ==
    LET r == get_state(Self)
    IN  Commit(r.w,
               [Returned("get_state", r) EXCEPT !.val = Dict],
               [phase |-> "taken", state |-> r.val, class |-> child_class,
                child |-> HasChild(Self)])

ClearState ==
    LET r == clear_state(Self)
    IN  Commit(r.w, Returned("clear_state", r), NoSnap)

Start ==
    /\ \E garbage \in {0, MaxPid}, pid \in 1..MaxPid :
          LET r == start(Self, garbage, pid)
          IN  Commit(r.w, Returned("start", r), NoSnap)

Stop(now) ==
    LET r == stop(Self, now)
    IN  Commit(r.w,
               [Returned("stop", r) EXCEPT !.key = IF now THEN "now" ELSE ""],
               NoSnap)

Poll ==
    \E status \in ChildPollValues :
       LET r == poll(Self, status)
       IN  Commit(r.w, Returned("poll", r), NoSnap)

\* the hub makes a new spawner object of the same class and configuration
\* (after a restart of the hub, or for the user's next server)
Restart ==
    Commit([Self EXCEPT !.user_options = NoKey,
                        !.child_profile = "",
                        !.child_class = "LocalProcessSpawner",
                        !.child_config = OwnDict(EmptyConf),
                        !.child_state = 0,
                        !.child_spawner = NoChild,
                        !.user_token = NoToken,
                        !.traits = EmptyConf],
           Call("__init__"),
           IF snap.phase = "taken" THEN [snap EXCEPT !.phase = "fresh"]
           ELSE NoSnap)

RunPostStopHook ==
    \E hook \in HookValues, child \in ChildHookOutcomes :
       LET r == run_post_stop_hook(Self, hook, child)
       IN  Commit(r.w,
                  [Returned("run_post_stop_hook", r) EXCEPT
                      !.hook = hook, !.child = child],
                  NoSnap)

RunPreSpawnHook ==
    \E hook \in HookValues, child \in ChildHookOutcomes :
       LET r == run_pre_spawn_hook(Self, hook, child)
       IN  Commit(r.w,
                  [Returned("run_pre_spawn_hook", r) EXCEPT
                      !.hook = hook, !.child = child],
                  NoSnap)

RunAuthStateHook ==
    \E hook \in HookValues, child \in ChildHookOutcomes,
       garbage \in {0, MaxPid} :
       LET r == run_auth_state_hook(Self, hook, child, garbage)
       IN  Commit(r.w,
                  [Returned("run_auth_state_hook", r) EXCEPT
                      !.hook = hook, !.child = child],
                  NoSnap)

\* a write to a trait of the wrapper
SetTrait(f, v) ==
    Commit(set_trait(Self, f, v), [Call("set_trait") EXCEPT !.key = f], NoSnap)

\* a write to a trait of the launcher
SetChildTrait(f, v) ==
    /\ HasChild(Self)
    /\ Commit(set_child_trait(Self, f, v),
              [Call("set_child_trait") EXCEPT !.key = f], NoSnap)

MoveCerts ==
    LET r == move_certs(Self)
    IN  Commit(r.w, Returned("move_certs", r), NoSnap)

Progress ==
    LET r == progress(Self)
    IN  Commit(r.w, Returned("progress", r), NoSnap)

\* the persisted states with no child_conf of a foreign catalog
PlainStates == { s \in StateInputs : s.child_conf = EmptyConf }

\* a WrapSpawner or a ProfilesSpawner
Init == InitOf({"WrapSpawner", "ProfilesSpawner"})

Next ==
    \/ \E value \in Catalogs : SetProfiles(value)
    \/ \E k \in KeyPool \cup {NoKey} : SetUserOptions(k)
    \/ \E formdata \in KeyPool \cup {NoKey} : SubmitForm(formdata)
    \/ \E k \in KeyPool : SelectProfile(k)
    \/ ConstructChild
    \/ \E state \in PlainStates \cup {snap.state} : LoadState(state)
    \/ GetState
    \/ ClearState
    \/ Start
    \/ \E now \in BOOLEAN : Stop(now)
    \/ Poll
    \/ Restart

Spec == Init /\ [][Next]_vars

\* a FilteredSpawner
InitFiltered == InitOf({"FilteredSpawner"})

NextFiltered ==
    \/ \E value \in GroupCatalogs : SetDefaultProfiles(value)
    \/ \E k \in KeyPool \cup {NoKey} : SetUserOptions(k)
    \/ \E formdata \in KeyPool \cup {NoKey} : SubmitForm(formdata)
    \/ \E k \in KeyPool : SelectProfile(k)
    \/ ConstructChild
    \/ \E state \in PlainStates : LoadState(state)
    \/ GetState
    \/ ClearState
    \/ Restart

SpecFiltered == InitFiltered /\ [][NextFiltered]_vars

\* a catalog with both profiles of the pool
BothProfiles ==
    << DefaultProfile, Profile("batch", "BatchSpawner", Conf(30, Unset)) >>

\* the lifecycle calls of the hub on a WrapSpawner or a ProfilesSpawner with
\* the default catalog or the one of both profiles: the hooks, progress and
\* the calls they go with
NextLifecycle ==
    \/ SetProfiles(BothProfiles)
    \/ \E k \in KeyPool \cup {NoKey} : SetUserOptions(k)
    \/ \E k \in KeyPool : SelectProfile(k)
    \/ ConstructChild
    \/ \E state \in PlainStates : LoadState(state)
    \/ GetState
    \/ ClearState
    \/ Start
    \/ \E now \in BOOLEAN : Stop(now)
    \/ Poll
    \/ RunPreSpawnHook
    \/ RunAuthStateHook
    \/ RunPostStopHook
    \/ Progress
    \/ MoveCerts

SpecLifecycle == Init /\ [][NextLifecycle]_vars

\* a new object, and the arguments args of the function that is applied next
InitWith(kinds, args) ==
    /\ klass \in kinds
    /\ profiles = IF klass = "ProfilesSpawner" THEN << DefaultProfile >> ELSE << >>
    /\ default_profiles =
           IF klass = "FilteredSpawner"
           THEN << GroupProfile(DefaultProfile, << "*" >>) >> ELSE << >>
    /\ user_options = NoKey
    /\ child_profile = ""
    /\ child_class = "LocalProcessSpawner"
    /\ child_config = OwnDict(EmptyConf)
    /\ child_state = 0
    /\ child_spawner = NoChild
    /\ user_token = NoToken
    /\ traits = EmptyConf
    /\ snap = NoSnap
    /\ \E a \in args : ret = [Call("__init__") EXCEPT !.arg = a]
    /\ prev = NoPrev

\* UnixGroupFilter.apply_filter(default_profiles, user), with the group
\* database it reads
ApplyUnixGroupFilter ==
    /\ ret.op = "__init__"
    /\ LET r == UnixGroupFilter(ret.arg.default_profiles, 1, ret.arg.user,
                                ret.arg.db)
       IN  Commit(Self,
                  [Call("apply_filter") EXCEPT
                      !.arg = ret.arg, !.cat = r.out, !.log = r.log],
                  NoSnap)

\* ImportedProfilesSpawner.profiles, with the files it reads
ImportedProfiles ==
    /\ ret.op = "__init__"
    /\ LET r == imported_profiles(ret.arg.known, ret.arg.common, ret.arg.own)
       IN  Commit(Self,
                  [Call("profiles") EXCEPT
                      !.arg = ret.arg, !.cat = r.out, !.exc = r.exc,
                      !.log = r.warns, !.err = r.errors],
                  NoSnap)

InitImported ==
    InitWith({"ProfilesSpawner"},
             [known : BOOLEAN, common : FileReads, own : FileReads])

NextImported == ImportedProfiles

SpecImported == InitImported /\ [][NextImported]_vars

\* a call of _get_user_token
GetUserToken ==
    \E outcome \in TokenOutcomes :
       LET r == get_user_token(Self, outcome)
       IN  Commit(r.w,
                  [Returned("_get_user_token", r) EXCEPT !.hook = outcome],
                  NoSnap)

\* a read of ServiceProfilesSpawner.profiles; ret.key is the token sent
ServiceProfiles ==
    \E response \in Responses :
       LET p == service_profiles(Self, response)
       IN  Commit(p.r.w,
                  [Returned("profiles", p.r) EXCEPT
                      !.arg = [response |-> response, held |-> user_token],
                      !.key = p.sent, !.cat = p.out],
                  NoSnap)

NextService ==
    \/ GetUserToken
    \/ ServiceProfiles

\* a ServiceProfilesSpawner
SpecService == InitOf({"ProfilesSpawner"}) /\ [][NextService]_vars

InitGroupFilter ==
    InitWith({"FilteredSpawner"},
             [default_profiles : UnixGroupCatalogs, user : Users, db : GroupDbs])

NextGroupFilter == ApplyUnixGroupFilter

SpecGroupFilter == InitGroupFilter /\ [][NextGroupFilter]_vars

\* the traits of the wrapper and of its launcher are written between calls
NextLinking ==
    \/ SetProfiles(BothProfiles)
    \/ \E k \in KeyPool \cup {NoKey} : SetUserOptions(k)
    \/ \E k \in KeyPool : SelectProfile(k)
    \/ ConstructChild
    \/ ClearState
    \/ \E f \in Fields, v \in WriteValues : SetTrait(f, v)
    \/ \E f \in Fields, v \in WriteValues : SetChildTrait(f, v)

SpecLinking == Init /\ [][NextLinking]_vars

\* the calls that resolve, persist and restore the selection of a session,
\* with the states a hub database can hold
NextCatalog ==
    \/ SetProfiles(BothProfiles)
    \/ \E k \in KeyPool : SelectProfile(k)
    \/ \E state \in StateInputs : LoadState(state)
    \/ GetState
    \/ ClearState

SpecCatalog == Init /\ [][NextCatalog]_vars

(***************************************************************************)
(* The claims.                                                             *)
(***************************************************************************)
\* the keys of a catalog
Keys(ps) == { ps[i].key : i \in DOMAIN ps }

\* the keys that two entries of a catalog share
SharedKeys(ps) ==
    { k \in Keys(ps) : \E i, j \in DOMAIN ps : i # j /\ ps[i].key = k /\ ps[j].key = k }

\* the launcher method m is among those a call ran
Ran(m) == \E i \in DOMAIN ret.calls : ret.calls[i] = m

\* the catalog the session resolves against, as tuples (key, class, config)
Catalog ==
    [i \in DOMAIN ProfilesOf(Self) |->
        Profile(ProfilesOf(Self)[i].key, ProfilesOf(Self)[i].class,
                ProfilesOf(Self)[i].conf)]

\* C1: construct_child() called twice in a row returns the same launcher
\* instance both times, on a WrapSpawner and on a ProfilesSpawner; the second
\* call makes no new launcher and adds no trait link.
C1_ConstructChildTwice ==
    (prev.op = "construct_child" /\ ret.op = "construct_child") =>
        /\ prev.val = Launcher
        /\ ret.val = Launcher
        /\ ~Ran("__init__")
        /\ ~Ran("link")
        /\ child_spawner.nlink = prev.nlink

\* C1, without what the calls return: after two calls in a row the wrapper
\* holds the launcher the first call left, made once and linked once.
C1_SecondCallKeepsLauncher ==
    (prev.op = "construct_child" /\ ret.op = "construct_child") =>
        /\ HasChild(Self)
        /\ ret.before
        /\ ~Ran("__init__")
        /\ ~Ran("link")
        /\ child_spawner.nlink = prev.nlink

\* the wrapper w whose state is being restored had resolved its profile
\* key: its class and config were those of the catalog entry with the key
Resolved ==
    \E i \in DOMAIN Catalog :
        /\ Catalog[i].key = snap.state.profile
        /\ Catalog[i].class = snap.class
        /\ Catalog[i].conf = snap.state.child_conf

\* a new ProfilesSpawner with no user options has loaded get_state(w)
Restored ==
    /\ ret.op = "load_state"
    /\ ret.restore
    /\ klass = "ProfilesSpawner"
    /\ user_options = NoKey
    /\ Resolved

\* C2: load_state(get_state(w)) on a new ProfilesSpawner with the same
\* catalog and no user options gives the selection of w (profile key, class,
\* config) and the launcher state of w, when the profile key of w is in the
\* catalog; get_state() then returns the same profile, child_conf and
\* child_state.
C2_RoundTrip ==
    Restored =>
        /\ child_profile = snap.state.profile
        /\ child_class = snap.class
        /\ ConfOf(Self) = snap.state.child_conf
        /\ snap.child => child_spawner.state = snap.state.child_state
        /\ get_state(Self).val.profile = snap.state.profile
        /\ get_state(Self).val.child_conf = snap.state.child_conf
        /\ snap.child =>
              get_state(Self).val.child_state = snap.state.child_state

\* C2, without the profile key: class, config and launcher state come back.
C2_RoundTripButKey ==
    Restored =>
        /\ child_class = snap.class
        /\ ConfOf(Self) = snap.state.child_conf
        /\ snap.child => child_spawner.state = snap.state.child_state
        /\ get_state(Self).val.child_conf = snap.state.child_conf
        /\ snap.child =>
              get_state(Self).val.child_state = snap.state.child_state

\* C3: load_state of a state whose profile key is not in the catalog fails
\* with an error, and makes no launcher from another or the default profile.
C3_RestoreOfUnknownKeyFails ==
    ( /\ ret.op = "load_state"
      /\ klass # "WrapSpawner"
      /\ ret.key \in KeyPool
      /\ ret.key \notin Keys(Catalog) ) =>
        /\ ret.exc # "none"
        /\ ~Ran("__init__")

\* C4: in a catalog with unique keys, select_profile(k) for a key k of the
\* catalog sets child_class and child_config to the class and the config of
\* the entry with the key k.
C4_SelectTakesTheEntry ==
    ( /\ ret.op = "select_profile"
      /\ SharedKeys(Catalog) = {}
      /\ ret.key \in Keys(Catalog) ) =>
        \E i \in DOMAIN Catalog :
            /\ Catalog[i].key = ret.key
            /\ child_class = Catalog[i].class
            /\ ConfOf(Self) = Catalog[i].conf
            /\ child_config = ProfileDict(ProfilesOf(Self)[i].src)

C4_Witness ==
    /\ ret.op = "select_profile"
    /\ ret.key = "batch"
    /\ Len(Catalog) = 2
    /\ Catalog[2].key = "batch"
    /\ child_class = "BatchSpawner"
    /\ ConfOf(Self) = Conf(30, Unset)

\* the selection: the recorded key, the class and the config
Selection == << child_profile, child_class, ConfOf(Self) >>

\* a step is a call of select_profile or of construct_child with a submitted
\* key that is not in the catalog
UnknownKeyStep ==
    /\ klass # "WrapSpawner"
    /\ \/ ret'.op = "select_profile" /\ ret'.key \notin Keys(Catalog)
       \/ /\ ret'.op = "construct_child"
          /\ user_options \in KeyPool
          /\ user_options \notin Keys(Catalog)

\* C5: a submitted profile key that is not in the catalog is no error and
\* changes nothing: after select_profile / construct_child the selection
\* (recorded key, class, config) is what it was before.
C5_UnknownKeyKeepsSelection ==
    [][UnknownKeyStep => (ret'.exc = "none" /\ Selection' = Selection)]_vars

\* C5, without the recorded key: class and config are what they were.
C5_UnknownKeyKeepsClassAndConfig ==
    [][UnknownKeyStep =>
          /\ ret'.exc = "none"
          /\ child_class' = child_class
          /\ ConfOf(Self)' = ConfOf(Self)]_vars

\* C6: with a catalog that is not empty and no profile key supplied (an
\* empty form, or user options with no 'profile' entry) the first entry is
\* selected: the launcher is constructed with its class and config.
C6_NoKeyTakesFirstEntry ==
    /\ (ret.op = "options_from_form" /\ ret.key = NoKey) =>
           user_options = Catalog[1].key
    /\ ( /\ klass # "WrapSpawner"
         /\ ret.op = "construct_child"
         /\ Ran("__init__")
         /\ user_options = NoKey
         /\ Len(Catalog) >= 1 ) =>
           /\ child_spawner.class = Catalog[1].class
           /\ child_spawner.conf = Catalog[1].conf

\* C6, for the form alone: an empty form gives the key of the first entry.
C6_EmptyFormTakesFirstKey ==
    (ret.op = "options_from_form" /\ ret.key = NoKey) =>
        user_options = Catalog[1].key

\* C7: a catalog (static or provided dynamically) is rejected with a
\* configuration error exactly if two of its entries share a key, the error
\* names the keys that occur more than once, and a catalog with distinct keys
\* is taken as it is.
C7_CatalogValidation ==
    (ret.op = "set_profiles" /\ Len(ret.cat) >= 1) =>
        /\ ret.exc = "TraitError" <=> SharedKeys(ret.cat) # {}
        /\ ret.exc = "TraitError" => ret.dups = SharedKeys(ret.cat)
        /\ ret.exc = "none" => Catalog = ret.cat

\* C8: stop(now) with no launcher returns a future that is done, with the
\* result None, for both values of now; nothing is raised and no launcher
\* is made.
C8_StopWithoutLauncher ==
    (ret.op = "stop" /\ ~ret.before) =>
        /\ ret.fut = "done"
        /\ ret.val = None
        /\ ret.exc = "none"
        /\ ret.calls = << >>
        /\ ~HasChild(Self)

C8_Witness ==
    /\ ret.op = "stop"
    /\ ret.key = "now"
    /\ ~ret.before
    /\ ret.fut = "done"
    /\ ret.val = None
    /\ klass = "ProfilesSpawner"

C10_ClearStateLeavesEmpty ==
    ret.op = "clear_state" =>
        /\ ret.before => ret.calls = << "clear_state" >>
        /\ ~HasChild(Self)
        /\ child_state = 0
        /\ child_config = OwnDict(EmptyConf)
        /\ child_profile = ""
        /\ child_class = "LocalProcessSpawner"

\* C10, without the class: all but child_class is reset.
C10_ClearStateButClass ==
    ret.op = "clear_state" =>
        /\ ret.before => ret.calls = << "clear_state" >>
        /\ ~HasChild(Self)
        /\ child_state = 0
        /\ child_config = OwnDict(EmptyConf)
        /\ child_profile = ""

\* C11: run_post_stop_hook() lets no exception out, with a launcher or with
\* none: an exception of the wrapper's post_stop_hook or of the launcher's
\* run_post_stop_hook is caught and logged, and the call returns.
C11_PostStopHookNeverRaises ==
    ret.op = "run_post_stop_hook" =>
        /\ ret.exc = "none"
        /\ ret.hook = "raises" => ret.log = 1
        /\ (Ran("run_post_stop_hook") /\ ret.child = "raises") => ret.log = 1
        /\ ~Ran("__init__")
        /\ HasChild(Self) = ret.before

C11_Witness ==
    /\ ret.op = "run_post_stop_hook"
    /\ ret.before
    /\ ret.hook = "returns"
    /\ ret.child = "raises"
    /\ ret.calls = << "post_stop_hook", "run_post_stop_hook" >>
    /\ ret.log = 1

\* C12: progress gives the launcher's progress when there is a launcher; with
\* none it raises RuntimeError, returns no default value and makes no
\* launcher.
C12_Progress ==
    ret.op = "progress" =>
        /\ ret.before =>
              /\ ret.val = ChildResult("progress")
              /\ ret.exc = "none"
              /\ ret.calls = << "progress" >>
        /\ ~ret.before =>
              /\ ret.exc = "RuntimeError"
              /\ ret.calls = << >>
              /\ ~HasChild(Self)

C12_Witness ==
    /\ ret.op = "progress"
    /\ ~ret.before
    /\ ret.exc = "RuntimeError"
    /\ ret.val = None
    /\ klass = "ProfilesSpawner"

\* the profile p is allowed for the user of the call: one of its groups is
\* '*' or a known group with the user among its members
Allowed(p) ==
    \E j \in DOMAIN p.groups :
        \/ p.groups[j] = "*"
        \/ /\ ret.arg.db[p.groups[j]].known
           /\ ret.arg.user \in ret.arg.db[p.groups[j]].members

\* (key, class, config) of every entry of a list of profiles
Plain(ps) == [i \in DOMAIN ps |-> Profile(ps[i].key, ps[i].class, ps[i].conf)]

\* C13: UnixGroupFilter.apply_filter gives, in the order of the input and
\* each at most once, the profiles with '*' or a known group of the user among
\* their groups; a group that is not known counts as empty and does not end
\* the scan or the call.
C13_UnixGroupFilter ==
    ret.op = "apply_filter" =>
        /\ ret.exc = "none"
        /\ Plain(ret.cat) = Plain(SelectSeq(ret.arg.default_profiles, Allowed))

C13_Witness ==
    /\ ret.op = "apply_filter"
    /\ Len(ret.arg.default_profiles) = 2
    /\ ret.arg.default_profiles[1].groups = << "ghost", "*" >>
    /\ ret.arg.default_profiles[2].groups = << "staff", "ghost" >>
    /\ ~ret.arg.db["ghost"].known
    /\ ret.arg.db["staff"].members = {"alice"}
    /\ ret.arg.user = "bob"
    /\ Len(ret.cat) = 1
    /\ ret.log = 2

\* every record of a JSON document has 'options'
ValidDocument(d) == \A i \in DOMAIN d : d[i].has_options

\* the profile at place i of the catalog is made of the record r
MadeOf(i, r) ==
    /\ ret.cat[i].display = r.description
    /\ ret.cat[i].key = << "prof_", i - 1 >>
    /\ ret.cat[i].conf = r.options
    /\ r.spawner # "" => ret.cat[i].class = r.spawner

\* C14: when the common profiles file is missing or cannot be read and the
\* user's file is valid with n records, ImportedProfilesSpawner.profiles is
\* the n profiles of the user's file in file order, raises nothing and logs
\* one warning; whenever it returns, the catalog is the common entries
\* followed by the user's, with the keys prof_0 .. prof_{n-1} by place, which
\* are distinct.
C14_ImportedProfiles ==
    (ret.op = "profiles" /\ ret.arg.known) =>
        /\ ( /\ ret.arg.common.status \in {"missing", "unreadable"}
             /\ ret.arg.own.status = "ok"
             /\ ValidDocument(ret.arg.own.data) ) =>
               /\ ret.exc = "none"
               /\ Len(ret.cat) = Len(ret.arg.own.data)
               /\ \A i \in DOMAIN ret.cat : MadeOf(i, ret.arg.own.data[i])
               /\ ret.log = 1
        /\ ret.exc = "none" =>
               /\ Len(ret.cat) =
                     Len(ret.arg.common.data) + Len(ret.arg.own.data)
               /\ \A i \in DOMAIN ret.cat :
                     IF i <= Len(ret.arg.common.data)
                     THEN MadeOf(i, ret.arg.common.data[i])
                     ELSE MadeOf(i, ret.arg.own.data[i - Len(ret.arg.common.data)])
               /\ SharedKeys(ret.cat) = {}

C14_Witness ==
    /\ ret.op = "profiles"
    /\ ret.arg.known
    /\ ret.arg.common.status = "missing"
    /\ ret.arg.own.status = "ok"
    /\ Len(ret.arg.own.data) = 2
    /\ ret.exc = "none"
    /\ Len(ret.cat) = 2
    /\ ret.cat[2].key = << "prof_", 1 >>
    /\ ret.log = 1

\* the number of places of the sequence q that hold x
Count(q, x) == Cardinality({ i \in DOMAIN q : q[i] = x })

\* C15: when the GET to the profile service fails with an HTTP error,
\* ServiceProfilesSpawner.profiles logs the failure and is the empty catalog;
\* no exception reaches the caller.
C15_HttpFailureGivesEmptyCatalog ==
    (ret.op = "profiles" /\ ret.arg.response.status \in HttpErrors) =>
        /\ ret.exc = "none"
        /\ ret.cat = << >>
        /\ ret.log >= 1

\* C16: the token sent with the profile request is one that the token call
\* issued (acquired when none is held); when the request fails because the
\* token is missing or rejected, the token is refreshed once and the request
\* sent once more; a call of profiles makes at most one refresh and at most
\* two requests.
C16_TokenIsIssuedAndRefreshedOnce ==
    ret.op = "profiles" =>
        /\ ret.key = IssuedToken
        /\ ret.arg.held \in {NoToken, ""} => Ran("POST tokens")
        /\ ret.arg.response.status \in {"401", "403"} =>
              /\ Count(ret.calls, "POST tokens") = 1
              /\ Count(ret.calls, "GET profiles") = 2
        /\ Count(ret.calls, "POST tokens") <= 1
        /\ Count(ret.calls, "GET profiles") <= 2

\* C16, the bounds alone: a call of profiles makes at most one refresh and at
\* most two requests.
C16_AtMostOneRefresh ==
    ret.op = "profiles" =>
        /\ Count(ret.calls, "POST tokens") <= 1
        /\ Count(ret.calls, "GET profiles") <= 2

\* C17: while no clear_state is called, a launcher that exists stays the
\* launcher of the wrapper: no call makes another instance or drops the
\* reference; a launcher is made only when there is none.
C17_LauncherNeverReplaced ==
    [][ret'.op \notin {"clear_state", "__init__"} =>
          /\ HasChild(Self) =>
                /\ HasChild(Self)'
                /\ ~Ran("__init__")'
                /\ child_spawner'.class = child_spawner.class
                /\ child_spawner'.conf = child_spawner.conf
                /\ child_spawner'.links = child_spawner.links
          /\ Ran("__init__")' => ~HasChild(Self)]_vars

C17_Witness ==
    /\ ret.op = "load_state"
    /\ ret.before
    /\ HasChild(Self)
    /\ ret.key = "batch"
    /\ ret.calls = << >>
    /\ child_spawner.state = MaxPid

\* C18: start() makes the launcher first when there is none, from the
\* selection and with the traits linked, before it calls the launcher's
\* start; it returns what the launcher's start returns; with a launcher it
\* makes none and selects nothing.
C18_StartConstructsFirst ==
    [][ret'.op = "start" =>
          /\ ret'.exc = "none"
          /\ ret'.val = ChildResult("start")
          /\ ret'.fut = "child"
          /\ HasChild(Self)'
          /\ Count(ret'.calls, "start") = 1
          /\ ret'.calls[Len(ret'.calls)] = "start"
          /\ HasChild(Self) =>
                /\ ret'.calls = << "start" >>
                /\ Selection' = Selection
                /\ child_spawner'.class = child_spawner.class
                /\ child_spawner'.conf = child_spawner.conf
                /\ child_spawner'.links = child_spawner.links
          /\ ~HasChild(Self) =>
                /\ ret'.calls[1] = "__init__"
                /\ Count(ret'.calls, "__init__") = 1
                /\ Count(ret'.calls, "link") = 1
                /\ child_spawner'.class = child_class'
                /\ child_spawner'.conf = ConfOf(Self)'
                /\ child_spawner'.links \cap ConfKeys(ConfOf(Self)') = {}]_vars

C18_Witness ==
    /\ ret.op = "start"
    /\ ~ret.before
    /\ klass = "ProfilesSpawner"
    /\ user_options = "batch"
    /\ ret.calls = << "__init__", "clear_state", "link", "start" >>
    /\ ret.val = ChildResult("start")
    /\ child_spawner.class = "BatchSpawner"
    /\ child_spawner.conf = Conf(30, Unset)
    /\ child_spawner.links = {"http_timeout"}

\* C19: run_pre_spawn_hook() with a launcher: the wrapper's pre_spawn_hook,
\* if set, runs first and then the launcher's run_pre_spawn_hook; with none
\* set only the launcher's runs; the launcher's runs once in both cases, and
\* an exception of either hook reaches the caller.
C19_PreSpawnHookRunsBoth ==
    (ret.op = "run_pre_spawn_hook" /\ ret.before) =>
        /\ ret.hook = "returns" =>
              ret.calls = << "pre_spawn_hook", "run_pre_spawn_hook" >>
        /\ ret.hook = "none" => ret.calls = << "run_pre_spawn_hook" >>
        /\ ret.hook = "raises" => ret.exc # "none"
        /\ (ret.hook # "raises" /\ ret.child = "raises") => ret.exc # "none"

\* C19, for a wrapper with no pre_spawn_hook and for failures of the hook
\* that does run: these are as claimed.
C19_PreSpawnHookAlone ==
    (ret.op = "run_pre_spawn_hook" /\ ret.before) =>
        /\ ret.hook = "none" => ret.calls = << "run_pre_spawn_hook" >>
        /\ ret.hook = "raises" => ret.exc # "none"
        /\ (ret.hook = "none" /\ ret.child = "raises") => ret.exc # "none"

\* C20: run_auth_state_hook(auth_state) in any state: the wrapper's
\* auth_state_hook, if set, is called once, first; then there is a launcher
\* (made if there was none) and its run_auth_state_hook is called once; the
\* call raises nothing when neither hook does.
C20_AuthStateHook ==
    ret.op = "run_auth_state_hook" =>
        /\ ret.hook # "none" =>
              /\ Count(ret.calls, "auth_state_hook") = 1
              /\ ret.calls[1] = "auth_state_hook"
        /\ ret.hook # "raises" =>
              /\ HasChild(Self)
              /\ Count(ret.calls, "run_auth_state_hook") = 1
        /\ (ret.hook # "raises" /\ ret.child = "returns") => ret.exc = "none"

\* C20, for a wrapper with no auth_state_hook: the launcher is made if there
\* is none and its run_auth_state_hook is called once.
C20_AuthStateHookUnset ==
    (ret.op = "run_auth_state_hook" /\ ret.hook = "none") =>
        /\ HasChild(Self)
        /\ ~ret.before => ret.calls[1] = "__init__"
        /\ Count(ret.calls, "run_auth_state_hook") = 1
        /\ ret.calls[Len(ret.calls)] = "run_auth_state_hook"
        /\ ret.child = "returns" => ret.exc = "none"

\* C21: run_post_stop_hook() with a launcher runs the launcher's
\* run_post_stop_hook unless the wrapper's post_stop_hook raised: after the
\* wrapper's hook when that returns, and also when the wrapper has no
\* post_stop_hook.
C21_LauncherPostStopHookRuns ==
    (ret.op = "run_post_stop_hook" /\ ret.before) =>
        /\ ret.hook = "returns" =>
              ret.calls = << "post_stop_hook", "run_post_stop_hook" >>
        /\ ret.hook = "none" => ret.calls = << "run_post_stop_hook" >>
        /\ ret.hook = "raises" => ~Ran("run_post_stop_hook")

\* C21, for a wrapper that has a post_stop_hook: the launcher's hook runs
\* after it exactly if it returned.
C21_AfterTheWrappersHook ==
    (ret.op = "run_post_stop_hook" /\ ret.before /\ ret.hook # "none") =>
        /\ ret.hook = "returns" =>
              ret.calls = << "post_stop_hook", "run_post_stop_hook" >>
        /\ ret.hook = "raises" => ret.calls = << "post_stop_hook" >>

\* the trait f is on the wrapper and on its launcher
Common(f) ==
    f \in WrapperTraitNames \cap ChildTraitNames(child_spawner.class)

C23_LauncherIsOfTheSelection ==
    (klass = "ProfilesSpawner" /\ HasChild(Self)) =>
        /\ child_spawner.class = child_class
        /\ \/ \E i \in DOMAIN Catalog :
                  /\ Catalog[i].key = child_profile
                  /\ Catalog[i].class = child_spawner.class
           \/ /\ child_profile \notin Keys(Catalog)
              /\ child_spawner.class = "LocalProcessSpawner"

\* C23: no call of select_profile, load_state or construct_child changes the
\* selected key or class of a ProfilesSpawner while its launcher stays bound.
C23_SelectionKeptWhileBound ==
    [][(/\ klass = "ProfilesSpawner"
        /\ HasChild(Self)
        /\ HasChild(Self)'
        /\ ret'.op \in {"select_profile", "load_state", "construct_child"})
       => /\ child_profile' = child_profile
          /\ child_class' = child_class]_vars

\* C24: no call of select_profile, load_state, get_state or clear_state
\* changes the catalog: every profile keeps its key, class and config.
C24_CatalogIsReadOnly ==
    [][ret'.op \in {"select_profile", "load_state", "get_state", "clear_state"}
          => Catalog' = Catalog]_vars

\* the calls of the hub that use the launcher
LauncherCalls ==
    {"start", "stop", "poll", "run_pre_spawn_hook", "run_post_stop_hook",
     "run_auth_state_hook", "move_certs", "get_state", "clear_state"}

\* C25: no lifecycle call fails for lack of a launcher: each of them makes
\* the launcher first or tests for it; only progress raises, and then its
\* RuntimeError.
C25_NoCallFailsForLackOfALauncher ==
    /\ ret.op \in LauncherCalls => ret.exc # "AttributeError"
    /\ ret.op = "progress" => ret.exc \in {"none", "RuntimeError"}

\* C25: start, stop, poll, run_auth_state_hook, get_state and clear_state do
\* not fail for lack of a launcher.
C25_GuardedCalls ==
    ret.op \in {"start", "stop", "poll", "run_auth_state_hook", "get_state",
                "clear_state"} => ret.exc # "AttributeError"

=============================================================================
